---- MODULE Spec2Model ----
(***************************************************************************)
(* AyurGenixAI: the retrieval engine (simple_rag_processor.py), the       *)
(* generation orchestrator with its response parser and formatters         *)
(* (enhanced_prescription.py) and the HTTP endpoints (main.py).            *)
(*                                                                         *)
(* A text is a sequence of symbols.  A symbol is a one-character string,   *)
(* or a literal phrase of the source kept as one symbol (a section header, *)
(* a meal name, a fixed sentence of the fallback prescription).  Substring *)
(* search, strip, split and join work on these sequences as the Python     *)
(* string methods work on characters.                                      *)
(***************************************************************************)
EXTENDS Integers, Sequences, FiniteSets, TLC

\* ------------------------------------------------------------------ bounds
MaxRows == 2
MaxTopN == 2
MaxLines == 2

\* ------------------------------------------------------- string primitives
Min(a, b) == IF a <= b THEN a ELSE b
Max(a, b) == IF a >= b THEN a ELSE b

UpperCase == <<"A", "H", "K", "P", "R", "V">>
LowerCase == <<"a", "h", "k", "p", "r", "v">>

\* str.lower() on one character
LowerChar(c) ==
    IF \E i \in 1..Len(UpperCase) : UpperCase[i] = c
    THEN LowerCase[CHOOSE i \in 1..Len(UpperCase) : UpperCase[i] = c]
    ELSE c

\* str.lower()
Lower(s) == [i \in 1..Len(s) |-> LowerChar(s[i])]

\* s.startswith(p) at offset i (1-based)
MatchAt(p, s, i) ==
    /\ i + Len(p) - 1 <= Len(s)
    /\ \A k \in 1..Len(p) : s[i + k - 1] = p[k]

\* the Python operator `p in s` on strings
Contains(p, s) == \E i \in 1..(Len(s) + 1) : MatchAt(p, s, i)

RECURSIVE CountFrom(_, _, _)
CountFrom(p, s, i) ==
    IF i > Len(s) + 1 THEN 0
    ELSE IF MatchAt(p, s, i)
         THEN 1 + CountFrom(p, s, i + Max(Len(p), 1))
         ELSE CountFrom(p, s, i + 1)

\* str.count(p): non-overlapping occurrences, left to right
Count(p, s) == CountFrom(p, s, 1)

Digits == <<"0", "1", "2", "3", "4", "5", "6", "7", "8", "9">>

RECURSIVE IntToStr(_)
\* str(n) for an integer n >= 0
IntToStr(n) ==
    IF n < 10 THEN <<Digits[n + 1]>>
    ELSE IntToStr(n \div 10) \o <<Digits[(n % 10) + 1]>>

RECURSIVE Join(_, _)
\* sep.join(parts)
Join(sep, parts) ==
    IF parts = <<>> THEN <<>>
    ELSE IF Len(parts) = 1 THEN parts[1]
    ELSE parts[1] \o sep \o Join(sep, Tail(parts))

\* s[:n] of a Python list, and DataFrame.head(n): a negative n drops the
\* last |n| elements
SlicePrefix(s, n) ==
    IF n >= 0 THEN SubSeq(s, 1, Min(n, Len(s)))
    ELSE SubSeq(s, 1, Max(0, Len(s) + n))

\* ------------------------------------------------------------ corpus cells
\* A cell of the DataFrame: a text, NaN (an empty CSV cell) or a number.
StrCell(s) == [kind |-> "str", val |-> s, num |-> 0]
NumCell(n) == [kind |-> "num", val |-> <<>>, num |-> n]
NaN == [kind |-> "nan", val |-> <<>>, num |-> 0]
\* the Python value None, row.get's default when no default is given
None == [kind |-> "none", val |-> <<>>, num |-> 0]
EmptyStr == StrCell(<<>>)
NA == StrCell(<<"N", "/", "A">>)

\* pd.notna(v)
NotNa(c) == c.kind \notin {"nan", "none"}

\* str(v): NaN renders as the text "nan"
Str(c) ==
    CASE c.kind = "str" -> c.val
      [] c.kind = "num" -> IntToStr(c.num)
      [] c.kind = "nan" -> <<"n", "a", "n">>
      [] OTHER -> <<"N", "o", "n", "e">>

\* row.get(col, default)
Get(row, col, default) == IF col \in DOMAIN row THEN row[col] ELSE default

AllColumns ==
    {"Disease", "Symptoms", "Constitution", "Ayurvedic_Herbs", "Formulation",
     "Diet_Recommendations", "Lifestyle_Recommendations"}

\* ------------------------------------------------------------ vocabulary
Pitta == <<"P", "i", "t", "t", "a">>
Vata == <<"V", "a", "t", "a">>
Kapha == <<"K", "a", "p", "h", "a">>
Acid == <<"A", "c", "i", "d">>
AcidReflux == Acid \o <<" ", "R", "e", "f", "l", "u", "x">>
Heartburn == <<"h", "e", "a", "r", "t", "b", "u", "r", "n">>
HeartburnCap == <<"H">> \o Tail(Heartburn)
Bloating == <<"b", "l", "o", "a", "t", "i", "n", "g">>
Amla == <<"A", "m", "l", "a">>
Tea == <<" ", "t", "e", "a">>
Walk == <<"w", "a", "l", "k">>
Rice == <<"r", "i", "c", "e">>
An == <<"a", "n">>

\* the corpus rows the model draws from (all seven columns)
RecAcid ==
    [Disease |-> StrCell(AcidReflux),
     Symptoms |-> StrCell(Heartburn \o <<",", " ">> \o Bloating),
     Constitution |-> StrCell(Pitta),
     Ayurvedic_Herbs |-> NaN,
     Formulation |-> NaN,
     Diet_Recommendations |-> StrCell(Rice),
     Lifestyle_Recommendations |-> NaN]
RecVata ==
    [Disease |-> NaN,
     Symptoms |-> NaN,
     Constitution |-> StrCell(Vata),
     Ayurvedic_Herbs |-> StrCell(Amla),
     Formulation |-> StrCell(HeartburnCap \o Tea),
     Diet_Recommendations |-> NaN,
     Lifestyle_Recommendations |-> StrCell(Walk)]
RecGas ==
    [Disease |-> StrCell(Acid),
     Symptoms |-> StrCell(Bloating),
     Constitution |-> NaN,
     Ayurvedic_Herbs |-> StrCell(Bloating \o Tea),
     Formulation |-> StrCell(Amla),
     Diet_Recommendations |-> StrCell(Rice),
     Lifestyle_Recommendations |-> StrCell(Walk)]
RecNum ==
    [Disease |-> NumCell(7),
     Symptoms |-> StrCell(Heartburn),
     Constitution |-> StrCell(Pitta),
     Ayurvedic_Herbs |-> StrCell(Amla),
     Formulation |-> NaN,
     Diet_Recommendations |-> NaN,
     Lifestyle_Recommendations |-> NaN]
RecordSet == {RecAcid, RecVata, RecGas, RecNum}

\* the column sets of the loaded CSV files
ColumnChoices ==
    {AllColumns,
     AllColumns \ {"Ayurvedic_Herbs", "Lifestyle_Recommendations"}}

Restrict(rec, cols) == [c \in cols |-> rec[c]]

RECURSIVE SeqsUpTo(_, _)
\* the sequences over S of length at most n
SeqsUpTo(S, n) ==
    IF n = 0 THEN {<<>>}
    ELSE LET shorter == SeqsUpTo(S, n - 1)
         IN shorter \cup {Append(q, x) : q \in shorter, x \in S}

\* the query inputs
SymptomLists == {<<>>, <<Heartburn>>, <<An>>, <<HeartburnCap, Bloating>>}
Doshas == {Pitta, Kapha}
Diagnoses == {<<>>, AcidReflux, Lower(Acid)}
TextQueries == {<<>>, <<"a">>, <<"t">>, Pitta}
\* the query arguments: texts, and a value that is no text
QueryArgs == {StrCell(q) : q \in TextQueries} \cup {NumCell(5)}
TopNs == (0 - MaxTopN)..MaxTopN

\* ------------------------------------------------------------------ state
VARIABLES
    data,     \* self.data: [columns, rows], read-only after load_data
    pc,       \* the caller: "idle", or "returned" holding a finished call
    call,     \* the finished call and its arguments
    scores,   \* the local list `scores` of the finished search, after sort
    outcome,  \* how the finished call ended: "returned" or "raised"
    ret       \* the value the finished call returned

vars == <<data, pc, call, scores, outcome, ret>>

\* pd.read_csv infers one type per column: a column holding a number holds
\* numbers only
WellTyped(rows) ==
    \A i, j \in 1..Len(rows) : \A c \in DOMAIN rows[i] :
        rows[i][c].kind = "num" => rows[j][c].kind = "num"

Corpora ==
    {[columns |-> cols, rows |-> [i \in 1..Len(q) |-> Restrict(q[i], cols)]] :
        cols \in ColumnChoices,
        q \in {r \in SeqsUpTo(RecordSet, MaxRows) : WellTyped(r)}}

NoCall == [op |-> "none"]

Init ==
    /\ data \in Corpora
    /\ pc = "idle"
    /\ call = NoCall
    /\ scores = <<>>
    /\ outcome = "none"
    /\ ret = <<>>

\* -------------------------------------------------------------- retrieval
RECURSIVE SumOver(_, _)
\* the sum of f[i] for i in 1..n
SumOver(f, n) == IF n = 0 THEN 0 ELSE f[n] + SumOver(f, n - 1)

\* x.lower() raises AttributeError on a value that is not a text
LowerRaises(c) == c.kind # "str"

\* lines 60-62
ConstitutionGain(row, dosha_lower) ==
    LET c == Get(row, "Constitution", None)
    IN IF NotNa(c) /\ Contains(dosha_lower, Lower(c.val)) THEN 10 ELSE 0

ConstitutionRaises(row) ==
    LET c == Get(row, "Constitution", None)
    IN NotNa(c) /\ LowerRaises(c)

\* lines 64-67
DiseaseGain(row, diagnosis_lower) ==
    LET d == Get(row, "Disease", None)
    IN IF /\ NotNa(d)
          /\ diagnosis_lower # <<>>
          /\ \/ Contains(diagnosis_lower, Lower(d.val))
             \/ Contains(Lower(d.val), diagnosis_lower)
       THEN 8 ELSE 0

DiseaseRaises(row, diagnosis_lower) ==
    LET d == Get(row, "Disease", None)
    IN NotNa(d) /\ diagnosis_lower # <<>> /\ LowerRaises(d)

\* lines 70-73 and 76-83: `weight` for every query symptom found in the
\* text str(row.get(col, ''))
TextGain(row, col, symptoms_lower, weight) ==
    LET text == Lower(Str(Get(row, col, EmptyStr)))
        hit == [k \in 1..Len(symptoms_lower) |->
                   IF Contains(symptoms_lower[k], text) THEN weight ELSE 0]
    IN SumOver(hit, Len(symptoms_lower))

RowRaises(row, diagnosis_lower) ==
    ConstitutionRaises(row) \/ DiseaseRaises(row, diagnosis_lower)

\* the score of one row, lines 58-83
RowScore(row, symptoms_lower, dosha_lower, diagnosis_lower) ==
    ConstitutionGain(row, dosha_lower)
    + DiseaseGain(row, diagnosis_lower)
    + TextGain(row, "Symptoms", symptoms_lower, 3)
    + TextGain(row, "Ayurvedic_Herbs", symptoms_lower, 1)
    + TextGain(row, "Formulation", symptoms_lower, 1)

\* x goes before the first entry whose score is not greater
InsertDesc(x, s) ==
    LET before == {i \in 1..Len(s) : \A j \in 1..i : s[j].score > x.score}
        k == Cardinality(before)
    IN SubSeq(s, 1, k) \o <<x>> \o SubSeq(s, k + 1, Len(s))

RECURSIVE SortDesc(_)
\* scores.sort(reverse=True, key=lambda x: x[0]): a stable sort, entries of
\* equal score keep their order
SortDesc(s) ==
    IF s = <<>> THEN <<>> ELSE InsertDesc(Head(s), SortDesc(Tail(s)))

\* _format_case_text
FormatCaseText(row) ==
    LET part(col, label) ==
            IF NotNa(Get(row, col, None))
            THEN <<<<label>> \o Str(row[col])>> ELSE <<>>
    IN Join(<<" ", "|", " ">>,
            part("Disease", "Disease: ")
            \o part("Symptoms", "Symptoms: ")
            \o part("Constitution", "Constitution: ")
            \o part("Ayurvedic_Herbs", "Herbs: ")
            \o part("Formulation", "Formulation: "))

\* lines 98-112: the result built for the row at index idx
StructuredResult(idx) ==
    LET row == data.rows[idx + 1]
    IN [id |-> IntToStr(idx),
        text |-> FormatCaseText(row),
        metadata |->
            [disease |-> Get(row, "Disease", NA),
             symptoms |-> Get(row, "Symptoms", NA),
             constitution |-> Get(row, "Constitution", NA),
             ayurvedic_herbs |-> Get(row, "Ayurvedic_Herbs", NA),
             formulation |-> Get(row, "Formulation", NA),
             diet_recommendations |-> Get(row, "Diet_Recommendations", NA),
             lifestyle_recommendations |->
                 Get(row, "Lifestyle_Recommendations", NA)]]

\* lines 192-204: search_by_text builds no lifestyle_recommendations entry
TextResult(idx) ==
    LET row == data.rows[idx + 1]
    IN [id |-> IntToStr(idx),
        text |-> FormatCaseText(row),
        metadata |->
            [disease |-> Get(row, "Disease", NA),
             symptoms |-> Get(row, "Symptoms", NA),
             constitution |-> Get(row, "Constitution", NA),
             ayurvedic_herbs |-> Get(row, "Ayurvedic_Herbs", NA),
             formulation |-> Get(row, "Formulation", NA),
             diet_recommendations |-> Get(row, "Diet_Recommendations", NA)]]

\* the list of row indices kept by `[idx for score, idx in s if score > 0]`
PositiveIndices(s) ==
    LET kept == SelectSeq(s, LAMBDA e : e.score > 0)
    IN [i \in 1..Len(kept) |-> kept[i].idx]

\* self.data.head(n).index.tolist()
HeadIndices(n) ==
    SlicePrefix([i \in 1..Len(data.rows) |-> i - 1], n)

\* SearchError with the exception leaving the method
SearchErrorPropagates == [outcome |-> "raised", value |-> <<>>]

\* lines 118-120 and 209-211: `except Exception as e:` prints and returns []
SearchError == [outcome |-> "returned", value |-> <<>>]

\* lines 45-120: how the method ends, [outcome, scores, value]
StructuredOutcome(symptoms, constitution_dosha, diagnosis, n_results) ==
    LET symptoms_lower == [k \in 1..Len(symptoms) |-> Lower(symptoms[k])]
        dosha_lower == Lower(constitution_dosha)
        diagnosis_lower == Lower(diagnosis)
        raised == \E i \in 1..Len(data.rows) :
                      RowRaises(data.rows[i], diagnosis_lower)
        unsorted == [i \in 1..Len(data.rows) |->
                        [score |-> RowScore(data.rows[i], symptoms_lower,
                                            dosha_lower, diagnosis_lower),
                         idx |-> i - 1]]
        sorted == SortDesc(unsorted)
        matched == PositiveIndices(SlicePrefix(sorted, n_results))
        top_indices == IF matched = <<>> THEN HeadIndices(n_results)
                       ELSE matched
    IN IF raised
       THEN [outcome |-> SearchError.outcome, scores |-> <<>>,
             value |-> SearchError.value]
       ELSE [outcome |-> "returned", scores |-> sorted,
             value |-> [i \in 1..Len(top_indices) |->
                           StructuredResult(top_indices[i])]]

search_by_symptoms_and_dosha(symptoms, constitution_dosha, diagnosis, n_results) ==
    LET out == StructuredOutcome(symptoms, constitution_dosha, diagnosis,
                                 n_results)
    IN /\ pc = "idle"
       /\ pc' = "returned"
       /\ call' = [op |-> "search_by_symptoms_and_dosha",
                   symptoms |-> symptoms,
                   constitution_dosha |-> constitution_dosha,
                   diagnosis |-> diagnosis,
                   n_results |-> n_results]
       /\ outcome' = out.outcome
       /\ scores' = out.scores
       /\ ret' = out.value
       /\ UNCHANGED data

\* lines 174-181: the occurrences of the query in every non-missing column
TextScore(row, query_lower) ==
    LET cols == DOMAIN row
        RECURSIVE SumCols(_)
        SumCols(S) ==
            IF S = {} THEN 0
            ELSE LET c == CHOOSE x \in S : TRUE
                     text == Lower(Str(row[c]))
                     gain == IF NotNa(row[c]) /\ Contains(query_lower, text)
                             THEN Count(query_lower, text) ELSE 0
                 IN gain + SumCols(S \ {c})
    IN SumCols(cols)

\* lines 166-211: how the method ends, [outcome, scores, value]; query is a
\* text or, from a caller that passes anything, a number, on which
\* query.lower() raises
TextOutcome(query, n_results) ==
    LET raised == LowerRaises(query)
        query_lower == Lower(query.val)
        all == [i \in 1..Len(data.rows) |->
                   [score |-> TextScore(data.rows[i], query_lower),
                    idx |-> i - 1]]
        sorted == SortDesc(SelectSeq(all, LAMBDA e : e.score > 0))
        top == SlicePrefix(sorted, n_results)
    IN IF raised
       THEN [outcome |-> SearchError.outcome, scores |-> <<>>,
             value |-> SearchError.value]
       ELSE [outcome |-> "returned", scores |-> sorted,
             value |-> [i \in 1..Len(top) |-> TextResult(top[i].idx)]]

search_by_text(query, n_results) ==
    LET out == TextOutcome(query, n_results)
    IN /\ pc = "idle"
       /\ pc' = "returned"
       /\ call' = [op |-> "search_by_text", query |-> query,
                   n_results |-> n_results]
       /\ outcome' = out.outcome
       /\ scores' = out.scores
       /\ ret' = out.value
       /\ UNCHANGED data

\* the caller takes the result and is ready for the next call
Return ==
    /\ pc = "returned"
    /\ pc' = "idle"
    /\ call' = NoCall
    /\ scores' = <<>>
    /\ outcome' = "none"
    /\ ret' = <<>>
    /\ UNCHANGED data

StructuredSearch ==
    \E symptoms \in SymptomLists, dosha \in Doshas, diagnosis \in Diagnoses,
       n \in TopNs :
        search_by_symptoms_and_dosha(symptoms, dosha, diagnosis, n)

TextSearch ==
    \E query \in QueryArgs, n \in TopNs : search_by_text(query, n)

Next ==
    \/ StructuredSearch
    \/ TextSearch
    \/ Return

Spec == Init /\ [][Next]_vars

\* ------------------------------------------------------------ text symbols
NL == "\n"
Bullet == "BULLET"          \* the bullet glyph U+2022
Pipe == "|"
Bar == "BAR80"              \* the banner rule, 80 box-drawing characters
HdrMedicines == "1. Ayurvedic Medicines:"
HdrDiet == "2. Diet Recommendation:"
HdrLifestyle == "3. Lifestyle Recommendations:"
Border == "+-----------+----------------------------------------+"
Whitespace == {" ", NL}

Spaces(n) == [i \in 1..n |-> " "]

RECURSIVE LStrip(_)
LStrip(s) ==
    IF s # <<>> /\ Head(s) \in Whitespace THEN LStrip(Tail(s)) ELSE s

RECURSIVE RStrip(_)
RStrip(s) ==
    IF s # <<>> /\ s[Len(s)] \in Whitespace
    THEN RStrip(SubSeq(s, 1, Len(s) - 1)) ELSE s

\* str.strip()
Strip(s) == RStrip(LStrip(s))

RECURSIVE Split(_, _)
\* str.split(sep) for a one-character separator
Split(s, sep) ==
    IF \E i \in 1..Len(s) : s[i] = sep
    THEN LET i == CHOOSE k \in 1..Len(s) :
                      s[k] = sep /\ \A j \in 1..(k - 1) : s[j] # sep
         IN <<SubSeq(s, 1, i - 1)>> \o Split(SubSeq(s, i + 1, Len(s)), sep)
    ELSE <<s>>

\* datetime.now().strftime("%B %d, %Y") and datetime.now().isoformat() of
\* the clock reading t
Strftime(t) == <<"day ">> \o IntToStr(t)
Isoformat(t) == <<"T">> \o IntToStr(t)

\* ------------------------------------------------------------- patients
StrList(items) == [kind |-> "list", items |-> items]
\* a value that is no list of texts: ', '.join(...) raises TypeError on it
NoList == [kind |-> "none", items |-> <<>>]

\* ', '.join(patient_info.symptoms)
JoinRaises(symptoms) == symptoms.kind # "list"
JoinSymptoms(symptoms) == Join(<<",", " ">>, symptoms.items)

Asha == <<"A", "s", "h", "a">>
PatientPlain ==
    [name |-> Asha, age |-> 34, gender |-> <<"F">>,
     constitution_dosha |-> Pitta,
     symptoms |-> StrList(<<Heartburn>>),
     doctor_diagnosis |-> AcidReflux]
\* a name that carries a section header, a line break and a bullet line
PatientHeaderName ==
    [PatientPlain EXCEPT
        !.name = <<HdrMedicines, NL, Bullet, " ", "X">>, !.age = 120]
\* a name with a bullet and a pipe but no line break
PatientBulletName ==
    [PatientPlain EXCEPT
        !.name = <<Bullet, " ", "B", Pipe>>, !.age = 1,
        !.constitution_dosha = Kapha,
        !.symptoms = StrList(<<Heartburn, Bloating>>)]
\* symptoms that are no list of texts
PatientNoSymptoms == [PatientPlain EXCEPT !.symptoms = NoList]
Patients ==
    {PatientPlain, PatientHeaderName, PatientBulletName, PatientNoSymptoms}

\* -------------------------------------------------------- response parser
EmptyDict == [k \in {} |-> <<>>]
Put(d, key, value) ==
    [k \in DOMAIN d \cup {key} |-> IF k = key THEN value ELSE d[k]]

ParserStart ==
    [current_section |-> "None",
     medicines |-> <<>>,
     diet_recommendations |-> EmptyDict,
     lifestyle_recommendations |-> <<>>,
     raised |-> FALSE]

\* MealKey testing the meal names in the opposite order
MealKeyDrinksFirst(line) ==
    CASE Contains(<<"Drinks">>, line) -> "drinks"
      [] Contains(<<"Dinner">>, line) -> "dinner"
      [] Contains(<<"Lunch">>, line) -> "lunch"
      [] Contains(<<"Breakfast">>, line) -> "breakfast"
      [] OTHER -> "None"

\* lines 197-212: the first of Breakfast, Lunch, Dinner, Drinks in the line
MealKey(line) ==
    CASE Contains(<<"Breakfast">>, line) -> "breakfast"
      [] Contains(<<"Lunch">>, line) -> "lunch"
      [] Contains(<<"Dinner">>, line) -> "dinner"
      [] Contains(<<"Drinks">>, line) -> "drinks"
      [] OTHER -> "None"

\* DietStore reading parts[2] without the length check: IndexError on a row
\* of fewer than 3 segments
DietStoreUnguarded(st, key, line) ==
    LET parts == Split(line, Pipe)
    IN IF Len(parts) >= 3
       THEN [st EXCEPT !.diet_recommendations = Put(@, key, Strip(parts[3]))]
       ELSE [st EXCEPT !.raised = TRUE]

\* lines 198-200: parts = line.split('|'); parts[2] is read only when
\* len(parts) >= 3
DietStore(st, key, line) ==
    LET parts == Split(line, Pipe)
    IN IF Len(parts) >= 3
       THEN [st EXCEPT !.diet_recommendations = Put(@, key, Strip(parts[3]))]
       ELSE st

\* ParseLine with a header starting its list afresh
ParseLineResetting(st, rawLine) ==
    LET line == Strip(rawLine)
    IN IF Contains(<<HdrMedicines>>, line)
       THEN [st EXCEPT !.current_section = "medicines", !.medicines = <<>>]
       ELSE IF Contains(<<HdrDiet>>, line)
       THEN [st EXCEPT !.current_section = "diet"]
       ELSE IF Contains(<<HdrLifestyle>>, line)
       THEN [st EXCEPT !.current_section = "lifestyle",
                       !.lifestyle_recommendations = <<>>]
       ELSE IF line # <<>> /\ Head(line) = Bullet
               /\ st.current_section = "medicines"
       THEN [st EXCEPT !.medicines = Append(@, Strip(Tail(line)))]
       ELSE IF line # <<>> /\ Head(line) = Bullet
               /\ st.current_section = "lifestyle"
       THEN [st EXCEPT
                !.lifestyle_recommendations = Append(@, Strip(Tail(line)))]
       ELSE IF Contains(<<Pipe>>, line) /\ st.current_section = "diet"
               /\ MealKey(line) # "None"
       THEN DietStore(st, MealKey(line), line)
       ELSE st

\* lines 184-212: one iteration of the loop over the lines
ParseLine(st, rawLine) ==
    LET line == Strip(rawLine)
    IN IF Contains(<<HdrMedicines>>, line)
       THEN [st EXCEPT !.current_section = "medicines"]
       ELSE IF Contains(<<HdrDiet>>, line)
       THEN [st EXCEPT !.current_section = "diet"]
       ELSE IF Contains(<<HdrLifestyle>>, line)
       THEN [st EXCEPT !.current_section = "lifestyle"]
       ELSE IF line # <<>> /\ Head(line) = Bullet
               /\ st.current_section = "medicines"
       THEN [st EXCEPT !.medicines = Append(@, Strip(Tail(line)))]
       ELSE IF line # <<>> /\ Head(line) = Bullet
               /\ st.current_section = "lifestyle"
       THEN [st EXCEPT
                !.lifestyle_recommendations = Append(@, Strip(Tail(line)))]
       ELSE IF Contains(<<Pipe>>, line) /\ st.current_section = "diet"
               /\ MealKey(line) # "None"
       THEN DietStore(st, MealKey(line), line)
       ELSE st

RECURSIVE ParseLines(_, _)
\* the loop `for line in lines`; an exception ends it
ParseLines(st, lines) ==
    IF lines = <<>> \/ st.raised THEN st
    ELSE ParseLines(ParseLine(st, Head(lines)), Tail(lines))

PatientInfoGroup(patient_info) ==
    [name |-> patient_info.name,
     age |-> patient_info.age,
     gender |-> patient_info.gender,
     constitution |-> patient_info.constitution_dosha,
     diagnosis |-> patient_info.doctor_diagnosis,
     symptoms |-> patient_info.symptoms]

\* _create_json_output writing the clock reading into the patient group too
_create_json_output_stamped(response_text, patient_info, now) ==
    LET st == ParseLines(ParserStart, Split(response_text, NL))
        stamped == [k \in DOMAIN PatientInfoGroup(patient_info) \cup {"date"} |->
                       IF k = "date" THEN Isoformat(now)
                       ELSE PatientInfoGroup(patient_info)[k]]
    IN IF ~ st.raised
       THEN [patient_info |-> stamped,
             prescription |->
                 [ayurvedic_medicines |-> st.medicines,
                  diet_recommendations |-> st.diet_recommendations,
                  lifestyle_recommendations |-> st.lifestyle_recommendations],
             metadata |->
                 [generated_date |-> Isoformat(now),
                  generated_by |-> "AyurGenixAI",
                  format_version |-> "1.0"]]
       ELSE [patient_info |-> stamped,
             prescription |-> [raw_text |-> response_text],
             metadata |->
                 [generated_date |-> Isoformat(now),
                  generated_by |-> "AyurGenixAI",
                  format_version |-> "1.0",
                  parsing_error |-> "IndexError"]]

\* _create_json_output; now is the reading of datetime.now()
_create_json_output(response_text, patient_info, now) ==
    LET st == ParseLines(ParserStart, Split(response_text, NL))
    IN IF ~ st.raised
       THEN [patient_info |-> PatientInfoGroup(patient_info),
             prescription |->
                 [ayurvedic_medicines |-> st.medicines,
                  diet_recommendations |-> st.diet_recommendations,
                  lifestyle_recommendations |-> st.lifestyle_recommendations],
             metadata |->
                 [generated_date |-> Isoformat(now),
                  generated_by |-> "AyurGenixAI",
                  format_version |-> "1.0"]]
       ELSE [patient_info |-> PatientInfoGroup(patient_info),
             prescription |-> [raw_text |-> response_text],
             metadata |->
                 [generated_date |-> Isoformat(now),
                  generated_by |-> "AyurGenixAI",
                  format_version |-> "1.0",
                  parsing_error |-> "IndexError"]]

\* ------------------------------------------------------------- formatters
DisplayHeader(patient_info, now) ==
    <<NL, Bar, NL>> \o Spaces(20) \o <<"AYURVEDIC PRESCRIPTION", NL, Bar, NL>>
    \o <<"Patient: ">> \o patient_info.name
    \o <<" ", Pipe, " ", "Age: ">> \o IntToStr(patient_info.age)
    \o <<" ", Pipe, " ", "Gender: ">> \o patient_info.gender
    \o <<NL, "Constitution: ">> \o patient_info.constitution_dosha
    \o <<NL, "Diagnosis: ">> \o patient_info.doctor_diagnosis
    \o <<NL, "Symptoms: ">> \o JoinSymptoms(patient_info.symptoms)
    \o <<NL, "Date: ">> \o Strftime(now)
    \o <<NL, Bar, NL, NL>>

DisplayFooter ==
    <<NL, NL, Bar, NL>> \o Spaces(24) \o <<"IMPORTANT NOTES", NL, Bar, NL,
      Bullet, " ", "Follow the prescription consistently for optimal results", NL,
      Bullet, " ", "Maintain regular meal times and sleep schedule", " ", " ", NL,
      Bullet, " ", "Stay hydrated with warm water throughout the day", NL,
      Bullet, " ", "Consult an Ayurvedic physician if symptoms persist", NL,
      Bullet, " ", "This prescription is based on traditional Ayurvedic principles", NL,
      NL,
      "Generated by AyurGenixAI - Your Ayurvedic Health Companion", NL,
      Bar, NL>>

\* _format_display_output
_format_display_output(response_text, patient_info, now) ==
    DisplayHeader(patient_info, now) \o response_text \o DisplayFooter

FormatDisplayRaises(patient_info) == JoinRaises(patient_info.symptoms)

\* ------------------------------------------------------ fallback response
FallbackMedicines ==
    <<<<"Triphala Churna: 1 tsp with warm water at bedtime">>,
      <<"Ashwagandha powder: 1/2 tsp with warm milk twice daily">>,
      <<"Amla juice: 20 ml with water in the morning">>>>
FallbackLifestyle ==
    <<<<"Practice Anulom-Vilom pranayama daily (10 minutes)">>,
      <<"Morning walk for 20-30 minutes">>,
      <<"Sleep by 10 PM, wake by 6 AM">>,
      <<"Avoid processed and cold foods">>,
      <<"Practice meditation for stress relief (10 minutes daily)">>>>
FallbackDiet ==
    [breakfast |-> <<"Warm oats with seasonal fruits">>,
     lunch |-> <<"Rice with dal and cooked vegetables">>,
     dinner |-> <<"Light khichdi or vegetable soup">>,
     drinks |-> <<"Warm water, herbal teas">>]

BulletLine(item) == Spaces(3) \o <<Bullet, " ">> \o item \o <<NL>>
TableRow(meal, padMeal, item, padItem) ==
    Spaces(3) \o <<Pipe, " ", meal>> \o Spaces(padMeal) \o <<Pipe, " ">>
    \o item \o Spaces(padItem) \o <<Pipe, NL>>

\* lines 264-288: the fallback text with the patient's data in its first line
fallback_text(patient_info) ==
    <<NL, "Prescription for ">> \o patient_info.name
    \o <<" ", "(">> \o IntToStr(patient_info.age)
    \o <<",", " ">> \o patient_info.gender
    \o <<",", " ">> \o patient_info.constitution_dosha
    \o <<" ", "constitution):", NL, NL>>
    \o <<HdrMedicines, NL>>
    \o BulletLine(FallbackMedicines[1])
    \o BulletLine(FallbackMedicines[2])
    \o BulletLine(FallbackMedicines[3])
    \o <<NL, HdrDiet, NL>>
    \o Spaces(3) \o <<Border, NL>>
    \o TableRow("Meal", 6, <<"Recommendation">>, 25)
    \o Spaces(3) \o <<Border, NL>>
    \o TableRow("Breakfast", 1, FallbackDiet.breakfast, 9)
    \o TableRow("Lunch", 5, FallbackDiet.lunch, 4)
    \o TableRow("Dinner", 4, FallbackDiet.dinner, 8)
    \o TableRow("Drinks", 4, FallbackDiet.drinks, 16)
    \o Spaces(3) \o <<Border, NL>>
    \o <<NL, HdrLifestyle, NL>>
    \o BulletLine(FallbackLifestyle[1])
    \o BulletLine(FallbackLifestyle[2])
    \o BulletLine(FallbackLifestyle[3])
    \o BulletLine(FallbackLifestyle[4])
    \o BulletLine(FallbackLifestyle[5])

\* _create_fallback_response: [raised, value]; now1 and now2 are the two
\* readings of datetime.now()
_create_fallback_response(patient_info, now1, now2) ==
    IF FormatDisplayRaises(patient_info)
    THEN [raised |-> TRUE, value |-> <<>>]
    ELSE [raised |-> FALSE,
          value |->
              [success |-> FALSE,
               display_format |->
                   _format_display_output(fallback_text(patient_info),
                                          patient_info, now1),
               json_format |->
                   _create_json_output(fallback_text(patient_info),
                                       patient_info, now2),
               error |-> "Using fallback prescription",
               similar_cases_count |-> 0]]

\* --------------------------------------------------------- prompt builder
\* lines 81-89: the block of one similar case; metadata.get(key, 'N/A')
CaseBlock(case) ==
    LET metadata == case.metadata
        field(key) == Str(Get(metadata, key, NA))
    IN [disease |-> field("disease"),
        constitution |-> field("constitution"),
        ayurvedic_herbs |-> field("ayurvedic_herbs"),
        formulation |-> field("formulation"),
        diet_recommendations |-> field("diet_recommendations")]

\* similar_cases[:3] raises TypeError on a value that is no list
PromptRaises(patient_info, similar_cases) ==
    JoinRaises(patient_info.symptoms) \/ similar_cases.kind # "list"

\* _create_precise_prompt: the patient section and the blocks of the first
\* three cases; the rest of the prompt is fixed text
_create_precise_prompt(patient_info, similar_cases) ==
    LET shown == SlicePrefix(similar_cases.items, 3)
    IN [patient_section |->
            <<NL, "PATIENT: ">> \o patient_info.name
            \o <<",", " ">> \o IntToStr(patient_info.age)
            \o <<" ", "years", ",", " ">> \o patient_info.gender
            \o <<NL, "CONSTITUTION: ">> \o patient_info.constitution_dosha
            \o <<NL, "SYMPTOMS: ">> \o JoinSymptoms(patient_info.symptoms)
            \o <<NL, "DIAGNOSIS: ">> \o patient_info.doctor_diagnosis
            \o <<NL>>,
        context_section |-> [i \in 1..Len(shown) |-> CaseBlock(shown[i])]]

NoPrompt == [patient_section |-> <<>>, context_section |-> <<>>]

\* ------------------------------------------------- generation orchestrator
\* what self.model.generate_content(prompt) does: raises, or answers a text
GeneratorRaises == [kind |-> "raise", text |-> <<>>]
GeneratorText(t) == [kind |-> "text", text |-> t]

\* GenerateOutcome without the `if response.text` test: an empty answer is
\* taken as a success
GenerateOutcomeNoEmptyTest(patient_info, similar_cases, generator, now1, now2) ==
    LET fallback == _create_fallback_response(patient_info, now1, now2)
    IN IF PromptRaises(patient_info, similar_cases)
       THEN [raised |-> fallback.raised, value |-> fallback.value,
             generator_calls |-> 0, prompt |-> NoPrompt]
       ELSE IF \/ generator.kind = "raise"
               \/ FormatDisplayRaises(patient_info)
       THEN [raised |-> fallback.raised, value |-> fallback.value,
             generator_calls |-> 1,
             prompt |-> _create_precise_prompt(patient_info, similar_cases)]
       ELSE [raised |-> FALSE,
             value |->
                 [success |-> TRUE,
                  display_format |->
                      _format_display_output(generator.text, patient_info,
                                             now1),
                  json_format |->
                      _create_json_output(generator.text, patient_info, now2),
                  raw_response |-> generator.text,
                  similar_cases_count |-> Len(similar_cases.items)],
             generator_calls |-> 1,
             prompt |-> _create_precise_prompt(patient_info, similar_cases)]

\* GenerateOutcome counting the cases rendered in the prompt instead of the
\* cases passed in
GenerateOutcomeCountsShown(patient_info, similar_cases, generator, now1, now2) ==
    LET fallback == _create_fallback_response(patient_info, now1, now2)
        prompt == _create_precise_prompt(patient_info, similar_cases)
    IN IF PromptRaises(patient_info, similar_cases)
       THEN [raised |-> fallback.raised, value |-> fallback.value,
             generator_calls |-> 0, prompt |-> NoPrompt]
       ELSE IF \/ generator.kind = "raise"
               \/ generator.text = <<>>
               \/ FormatDisplayRaises(patient_info)
       THEN [raised |-> fallback.raised, value |-> fallback.value,
             generator_calls |-> 1, prompt |-> prompt]
       ELSE [raised |-> FALSE,
             value |->
                 [success |-> TRUE,
                  display_format |->
                      _format_display_output(generator.text, patient_info,
                                             now1),
                  json_format |->
                      _create_json_output(generator.text, patient_info, now2),
                  raw_response |-> generator.text,
                  similar_cases_count |-> Len(prompt.context_section)],
             generator_calls |-> 1, prompt |-> prompt]

\* lines 41-65; the result is [raised, value, generator_calls, prompt]
GenerateOutcome(patient_info, similar_cases, generator, now1, now2) ==
    LET fallback == _create_fallback_response(patient_info, now1, now2)
    IN IF PromptRaises(patient_info, similar_cases)
       THEN [raised |-> fallback.raised, value |-> fallback.value,
             generator_calls |-> 0, prompt |-> NoPrompt]
       ELSE IF \/ generator.kind = "raise"
               \/ generator.text = <<>>
               \/ FormatDisplayRaises(patient_info)
       THEN [raised |-> fallback.raised, value |-> fallback.value,
             generator_calls |-> 1,
             prompt |-> _create_precise_prompt(patient_info, similar_cases)]
       ELSE [raised |-> FALSE,
             value |->
                 [success |-> TRUE,
                  display_format |->
                      _format_display_output(generator.text, patient_info,
                                             now1),
                  json_format |->
                      _create_json_output(generator.text, patient_info, now2),
                  raw_response |-> generator.text,
                  similar_cases_count |-> Len(similar_cases.items)],
             generator_calls |-> 1,
             prompt |-> _create_precise_prompt(patient_info, similar_cases)]

generate_prescription(patient_info, similar_cases, generator, now1, now2) ==
    LET out == GenerateOutcome(patient_info, similar_cases, generator,
                               now1, now2)
    IN /\ pc = "idle"
       /\ pc' = "returned"
       /\ call' = [op |-> "generate_prescription",
                   patient_info |-> patient_info,
                   similar_cases |-> similar_cases,
                   generator |-> generator,
                   generator_calls |-> out.generator_calls,
                   prompt |-> out.prompt]
       /\ outcome' = IF out.raised THEN "raised" ELSE "returned"
       /\ ret' = out.value
       /\ scores' = <<>>
       /\ UNCHANGED data

\* a direct call of _create_json_output(response_text, patient_info)
create_json_output(response_text, patient_info, now) ==
    /\ pc = "idle"
    /\ pc' = "returned"
    /\ call' = [op |-> "_create_json_output",
                response_text |-> response_text,
                patient_info |-> patient_info,
                now |-> now]
    /\ outcome' = "returned"
    /\ ret' = _create_json_output(response_text, patient_info, now)
    /\ scores' = <<>>
    /\ UNCHANGED data

\* two direct calls of _create_json_output on the same text and patient, at
\* the clock readings now1 and now2
create_json_output_twice(response_text, patient_info, now1, now2) ==
    /\ pc = "idle"
    /\ pc' = "returned"
    /\ call' = [op |-> "_create_json_output twice",
                response_text |-> response_text,
                patient_info |-> patient_info,
                now1 |-> now1,
                now2 |-> now2]
    /\ outcome' = "returned"
    /\ ret' = <<_create_json_output(response_text, patient_info, now1),
                _create_json_output(response_text, patient_info, now2)>>
    /\ scores' = <<>>
    /\ UNCHANGED data

\* ----------------------------------------------------- generation inputs
MaxTime == 2
Times == 1..MaxTime

\* the lines the generator texts are made of
LineSet ==
    {<<HdrMedicines>>,
     <<HdrDiet>>,
     <<HdrLifestyle>>,
     <<" ", Bullet, " ", "m", " ">>,
     <<Bullet, "w">>,
     <<Pipe, " ", "Breakfast", " ", Pipe, " ", "Warm oats", " ", Pipe>>,
     <<"Breakfast", Pipe, "x">>,
     <<Pipe, "Lunch", Pipe, "after", " ", "Breakfast", Pipe>>,
     <<Bullet, " ", "see", " ", HdrLifestyle>>,
     <<"x">>,
     <<>>}

GoodText ==
    Join(<<NL>>,
         <<<<HdrMedicines>>, <<" ", Bullet, " ", "m">>,
           <<HdrDiet>>,
           <<Pipe, " ", "Breakfast", " ", Pipe, " ", "Warm oats", " ", Pipe>>,
           <<HdrLifestyle>>, <<Bullet, "w">>>>)
MalformedText == Join(<<NL>>, <<<<HdrDiet>>, <<"Breakfast", Pipe, "x">>>>)
\* a diet table with a lower-case label and a Drinks row that names Dinner
OverwriteText ==
    Join(<<NL>>,
         <<<<HdrDiet>>,
           <<Pipe, "Dinner", Pipe, "soup", Pipe>>,
           <<Pipe, "breakfast", Pipe, "y", Pipe>>,
           <<Pipe, " ", "Drinks", " ", Pipe, " ", "after", " ", "Dinner", Pipe>>>>)
\* a text that leaves the medicines section and comes back to it
SwitchText ==
    Join(<<NL>>,
         <<<<Bullet, "w">>,
           <<HdrMedicines>>, <<" ", Bullet, " ", "m", " ">>,
           <<HdrLifestyle>>, <<Bullet, "w">>,
           <<HdrMedicines>>, <<Bullet, " ", "n">>,
           <<HdrDiet>>, <<Bullet, "w">>>>)

\* the texts _create_json_output is called on
ParserTexts ==
    {Join(<<NL>>, q) : q \in SeqsUpTo(LineSet, MaxLines)}
    \cup {GoodText, SwitchText, OverwriteText}
Generators ==
    {GeneratorRaises, GeneratorText(<<>>), GeneratorText(GoodText),
     GeneratorText(MalformedText), GeneratorText(<<"x">>)}

\* the corpus the generation runs are given their similar cases from
GenCorpus ==
    [columns |-> AllColumns, rows |-> <<RecAcid, RecVata, RecGas, RecAcid>>]

\* the similar_cases arguments: the first k rows as retrieved cases, or a
\* value that is no list
SimilarCases ==
    {NoList} \cup
    {StrList([i \in 1..k |-> StructuredResult(i - 1)]) :
        k \in 0..Len(data.rows)}

Generate ==
    \E patient_info \in Patients, similar_cases \in SimilarCases,
       generator \in Generators, now1 \in Times, now2 \in Times :
        /\ now1 <= now2
        /\ generate_prescription(patient_info, similar_cases, generator,
                                 now1, now2)

CreateJson ==
    \E response_text \in ParserTexts,
       patient_info \in {PatientPlain, PatientBulletName}, now \in Times :
        create_json_output(response_text, patient_info, now)

CreateJsonTwice ==
    \E response_text \in {GoodText, MalformedText, <<>>},
       patient_info \in {PatientPlain, PatientBulletName},
       now1 \in Times, now2 \in Times :
        /\ now1 <= now2
        /\ create_json_output_twice(response_text, patient_info, now1, now2)

GenInit ==
    /\ data = GenCorpus
    /\ pc = "idle"
    /\ call = NoCall
    /\ scores = <<>>
    /\ outcome = "none"
    /\ ret = <<>>

GenNext ==
    \/ Generate
    \/ CreateJson
    \/ CreateJsonTwice
    \/ Return

GenSpec == GenInit /\ [][GenNext]_vars

\* ---------------------------------------------------------- HTTP endpoints
\* startup_event raises unless both globals were constructed, so a serving
\* process has rag_processor and prescription_generator set. A response field
\* left at its default None is absent from the response record.

\* the patient_info dict of the responses
PatientDict(patient_info) ==
    [name |-> patient_info.name,
     age |-> patient_info.age,
     gender |-> patient_info.gender,
     constitution_dosha |-> patient_info.constitution_dosha,
     symptoms |-> patient_info.symptoms,
     doctor_diagnosis |-> patient_info.doctor_diagnosis]

\* the `except Exception as e` branch of a handler
ErrorResponse(message) == [success |-> FALSE, error_message |-> message]

\* rag_processor.search_by_symptoms_and_dosha(..., n_results=5)
EndpointCases(patient_info) ==
    StrList(StructuredOutcome(patient_info.symptoms.items,
                              patient_info.constitution_dosha,
                              patient_info.doctor_diagnosis, 5).value)

\* the orchestrator call of a handler: [raised, value, generator_calls, prompt]
EndpointGenerate(patient_info, generator, now1, now2) ==
    GenerateOutcome(patient_info, EndpointCases(patient_info), generator,
                    now1, now2)

\* main.py lines 232-252
PrescriptionResponse(patient_info, out) ==
    IF out.raised THEN ErrorResponse("TypeError")
    ELSE [success |-> out.value.success,
          prescription |-> out.value.display_format,
          patient_info |-> PatientDict(patient_info),
          similar_cases_count |-> out.value.similar_cases_count,
          json_format |-> out.value.json_format]

\* main.py lines 296-325
MedicationResponse(patient_info, out) ==
    IF out.raised THEN ErrorResponse("TypeError")
    ELSE IF out.value.success
    THEN LET prescription_data == out.value.json_format.prescription
         IN [success |-> TRUE,
             patient_info |-> PatientDict(patient_info),
             ayurvedic_medicines |->
                 IF "ayurvedic_medicines" \in DOMAIN prescription_data
                 THEN prescription_data.ayurvedic_medicines ELSE <<>>,
             lifestyle_recommendations |->
                 IF "lifestyle_recommendations" \in DOMAIN prescription_data
                 THEN prescription_data.lifestyle_recommendations ELSE <<>>,
             similar_cases_count |-> out.value.similar_cases_count]
    ELSE ErrorResponse("Failed to generate medication recommendations")

\* f"{text:<38}": the text padded on the right to 38 columns, a symbol of the
\* text taken as one column
PadTo38(text) == text \o Spaces(Max(38 - Len(text), 0))

\* main.py lines 375-382, stripped
DietChart(diet_recs) ==
    LET cell(key) == PadTo38(IF key \in DOMAIN diet_recs THEN diet_recs[key]
                             ELSE <<"Not specified">>)
        row(label, key) ==
            <<Pipe, " ", label, " ", Pipe, " ">> \o cell(key)
            \o <<" ", Pipe, NL>>
    IN <<Border, NL,
         Pipe, " ", "Meal      ", " ", Pipe, " ">>
       \o PadTo38(<<"Recommendation">>) \o <<" ", Pipe, NL, Border, NL>>
       \o row("Breakfast", "breakfast")
       \o row("Lunch    ", "lunch")
       \o row("Dinner   ", "dinner")
       \o row("Drinks   ", "drinks")
       \o <<Border>>

\* main.py lines 369-409
DietResponse(patient_info, out) ==
    IF out.raised THEN ErrorResponse("TypeError")
    ELSE IF out.value.success
    THEN LET prescription_data == out.value.json_format.prescription
             diet_recs ==
                 IF "diet_recommendations" \in DOMAIN prescription_data
                 THEN prescription_data.diet_recommendations ELSE EmptyDict
         IN [success |-> TRUE,
             patient_info |-> PatientDict(patient_info),
             diet_recommendations |-> diet_recs,
             diet_chart |-> DietChart(diet_recs),
             similar_cases_count |-> out.value.similar_cases_count]
    ELSE ErrorResponse("Failed to generate diet recommendations")

\* a generation handler has run: the request, what the orchestrator gave it
\* and the response it sent
EndpointStep(op, patient_info, generator, out, response) ==
    /\ pc = "idle"
    /\ pc' = "returned"
    /\ call' = [op |-> op,
                patient_request |-> patient_info,
                generator |-> generator,
                prescription_result |-> out]
    /\ outcome' = "returned"
    /\ ret' = response
    /\ scores' = <<>>
    /\ UNCHANGED data

\* POST /generate-prescription
post_generate_prescription(patient_request, generator, now1, now2) ==
    LET out == EndpointGenerate(patient_request, generator, now1, now2)
    IN EndpointStep("/generate-prescription", patient_request, generator, out,
                    PrescriptionResponse(patient_request, out))

\* POST /generate-medication
generate_medication_and_lifestyle(patient_request, generator, now1, now2) ==
    LET out == EndpointGenerate(patient_request, generator, now1, now2)
    IN EndpointStep("/generate-medication", patient_request, generator, out,
                    MedicationResponse(patient_request, out))

\* POST /generate-diet
generate_diet_recommendations(patient_request, generator, now1, now2) ==
    LET out == EndpointGenerate(patient_request, generator, now1, now2)
    IN EndpointStep("/generate-diet", patient_request, generator, out,
                    DietResponse(patient_request, out))

\* the methods class AyurvedicRAGProcessor defines
ProcessorMethods ==
    {"__init__", "load_data", "search_by_symptoms_and_dosha",
     "_format_case_text", "get_collection_stats", "search_by_text"}

\* rag_processor.<name> raises AttributeError
LookupRaises(name) == name \notin ProcessorMethods

\* `not x` for a JSON value
Falsy(c) ==
    \/ c.kind = "str" /\ c.val = <<>>
    \/ c.kind = "num" /\ c.num = 0

\* main.py lines 417-451: the response of POST /search-cases; the lookup of
\* search_similar_cases on the processor raises before any search is made
SearchCasesResponse(query) ==
    LET search_query == IF "query" \in DOMAIN query THEN query.query
                        ELSE EmptyStr
    IN CASE Falsy(search_query) ->
                ErrorResponse("400: Query parameter is required")
         [] ~ Falsy(search_query) /\ LookupRaises("search_similar_cases") ->
                ErrorResponse("'AyurvedicRAGProcessor' object has no attribute 'search_similar_cases'")

\* POST /search-cases
search_similar_cases(query) ==
    /\ pc = "idle"
    /\ pc' = "returned"
    /\ call' = [op |-> "/search-cases", query |-> query]
    /\ outcome' = "returned"
    /\ ret' = SearchCasesResponse(query)
    /\ scores' = <<>>
    /\ UNCHANGED data

\* ------------------------------------------------------- endpoint inputs
\* the requests pydantic lets through: symptoms is a list of texts
PatientRequests == {PatientPlain, PatientHeaderName, PatientBulletName}

\* the JSON bodies of POST /search-cases
QueryBodies ==
    {EmptyDict}
    \cup {[query |-> q] : q \in QueryArgs}
    \cup {[query |-> StrCell(q), n_results |-> n] :
             q \in {<<"a">>, Pitta}, n \in TopNs}

\* the corpora the service is started on
ApiCorpora ==
    {GenCorpus,
     [columns |-> AllColumns, rows |-> <<RecNum, RecNum>>],
     [columns |-> AllColumns, rows |-> <<>>]}

PostGeneratePrescription ==
    \E patient_request \in PatientRequests, generator \in Generators,
       now1 \in Times, now2 \in Times :
        /\ now1 <= now2
        /\ post_generate_prescription(patient_request, generator, now1, now2)

PostGenerateMedication ==
    \E patient_request \in PatientRequests, generator \in Generators,
       now1 \in Times, now2 \in Times :
        /\ now1 <= now2
        /\ generate_medication_and_lifestyle(patient_request, generator,
                                             now1, now2)

PostGenerateDiet ==
    \E patient_request \in PatientRequests, generator \in Generators,
       now1 \in Times, now2 \in Times :
        /\ now1 <= now2
        /\ generate_diet_recommendations(patient_request, generator,
                                         now1, now2)

PostSearchCases == \E query \in QueryBodies : search_similar_cases(query)

ApiInit ==
    /\ data \in ApiCorpora
    /\ pc = "idle"
    /\ call = NoCall
    /\ scores = <<>>
    /\ outcome = "none"
    /\ ret = <<>>

ApiNext ==
    \/ PostGeneratePrescription
    \/ PostGenerateMedication
    \/ PostGenerateDiet
    \/ PostSearchCases
    \/ Return

ApiSpec == ApiInit /\ [][ApiNext]_vars

\* ------------------------------------------------------------- properties
RECURSIVE StrToInt(_)
\* the integer a digit string denotes
StrToInt(d) ==
    IF d = <<>> THEN 0
    ELSE 10 * StrToInt(SubSeq(d, 1, Len(d) - 1))
         + (CHOOSE k \in 0..9 : Digits[k + 1] = d[Len(d)])

StructuredDone ==
    pc = "returned" /\ call.op = "search_by_symptoms_and_dosha"
TextDone == pc = "returned" /\ call.op = "search_by_text"

\* the scoring loop of the finished search completed for every row
Scored == Len(scores) = Len(data.rows)

\* the score the finished search gave to the row of a result
ScoreOf(r) ==
    LET e == CHOOSE x \in {scores[i] : i \in 1..Len(scores)} :
                 x.idx = StrToInt(r.id)
    IN e.score

\* C1: search_by_symptoms_and_dosha returns at most top_n results, in
\* non-increasing score order, equal scores in ascending row index order.
C1_AtMostTopNSorted ==
    StructuredDone =>
        /\ Len(ret) <= Max(call.n_results, 0)
        /\ \A i \in 1..(Len(ret) - 1) :
               \/ ScoreOf(ret[i]) > ScoreOf(ret[i + 1])
               \/ /\ ScoreOf(ret[i]) = ScoreOf(ret[i + 1])
                  /\ StrToInt(ret[i].id) < StrToInt(ret[i + 1].id)

\* C2: when some record scores > 0 only records scoring > 0 are returned;
\* when every record scores 0 the result is the first top_n records of the
\* corpus in natural order.
C2_FallbackOnlyWhenAllZero ==
    (StructuredDone /\ Scored) =>
        IF \E i \in 1..Len(scores) : scores[i].score > 0
        THEN \A i \in 1..Len(ret) : ScoreOf(ret[i]) > 0
        ELSE LET n == Min(Max(call.n_results, 0), Len(data.rows))
             IN /\ Len(ret) = n
                /\ \A i \in 1..n : ret[i].id = IntToStr(i - 1)

\* the lower-cased text of a field, <<>> with present = FALSE when the
\* field is absent or NaN
FieldPresent(row, col) == col \in DOMAIN row /\ row[col].kind \in {"str", "num"}
FieldText(row, col) == Lower(Str(row[col]))

Hits(row, col, needles) ==
    IF FieldPresent(row, col)
    THEN Cardinality({k \in 1..Len(needles) :
                         Contains(Lower(needles[k]), FieldText(row, col))})
    ELSE 0

\* the score as the scoring rules state it
StatedScore(row, symptoms, dosha, diagnosis) ==
    (IF /\ FieldPresent(row, "Constitution")
        /\ Contains(Lower(dosha), FieldText(row, "Constitution"))
     THEN 10 ELSE 0)
    + (IF /\ diagnosis # <<>>
          /\ FieldPresent(row, "Disease")
          /\ \/ Contains(FieldText(row, "Disease"), Lower(diagnosis))
             \/ Contains(Lower(diagnosis), FieldText(row, "Disease"))
       THEN 8 ELSE 0)
    + 3 * Hits(row, "Symptoms", symptoms)
    + Hits(row, "Ayurvedic_Herbs", symptoms)
    + Hits(row, "Formulation", symptoms)

\* C3: the score of a record is 10 (constitution) + 8 (diagnosis) + 3 per
\* symptom in symptoms + 1 per symptom in herbs + 1 per symptom in
\* formulation; the Pitta / Acid Reflux / heartburn scenario scores 21 and
\* is the sole result.
C3_ScoreFormula ==
    (StructuredDone /\ Scored) =>
        /\ \A i \in 1..Len(scores) :
               scores[i].score =
                   StatedScore(data.rows[scores[i].idx + 1], call.symptoms,
                               call.constitution_dosha, call.diagnosis)
        /\ (/\ Len(data.rows) = 1
            /\ data.rows[1] = Restrict(RecAcid, data.columns)
            /\ call.symptoms = <<Heartburn>>
            /\ call.constitution_dosha = Pitta
            /\ call.diagnosis = AcidReflux
            /\ call.n_results >= 1)
           => (scores[1].score = 21 /\ Len(ret) = 1 /\ ret[1].id = <<"0">>)

\* C4: top_n <= 0 yields an empty result, in both searches.
C4_NonPositiveTopNEmpty ==
    ((StructuredDone \/ TextDone) /\ call.n_results <= 0) => ret = <<>>

FieldMissing(row, col) == ~ NotNa(Get(row, col, None))

\* C5: an absent or NaN field gives no score to any (non-empty) query
\* symptom, constitution label or diagnosis.
C5_MissingFieldNoGain ==
    StructuredDone =>
        \A i \in 1..Len(data.rows) :
            LET row == data.rows[i]
                needles == SelectSeq(
                    [k \in 1..Len(call.symptoms) |-> Lower(call.symptoms[k])],
                    LAMBDA x : x # <<>>)
            IN /\ \A col \in {"Symptoms", "Ayurvedic_Herbs", "Formulation"} :
                      FieldMissing(row, col) =>
                          TextGain(row, col, needles, 1) = 0
               /\ FieldMissing(row, "Constitution") =>
                      ConstitutionGain(row, Lower(call.constitution_dosha)) = 0
               /\ FieldMissing(row, "Disease") =>
                      DiseaseGain(row, Lower(call.diagnosis)) = 0

\* the column behind each metadata key
MetaColumn ==
    [disease |-> "Disease",
     symptoms |-> "Symptoms",
     constitution |-> "Constitution",
     ayurvedic_herbs |-> "Ayurvedic_Herbs",
     formulation |-> "Formulation",
     diet_recommendations |-> "Diet_Recommendations",
     lifestyle_recommendations |-> "Lifestyle_Recommendations"]

\* C6: every returned case has the stringified row index as id and a
\* metadata mapping with all seven fields, missing values being "N/A".
C6_SevenFieldMetadata ==
    (StructuredDone \/ TextDone) =>
        \A i \in 1..Len(ret) :
            /\ \E idx \in 0..(Len(data.rows) - 1) : ret[i].id = IntToStr(idx)
            /\ DOMAIN MetaColumn \subseteq DOMAIN ret[i].metadata
            /\ \A key \in DOMAIN MetaColumn :
                   LET row == data.rows[StrToInt(ret[i].id) + 1]
                   IN IF FieldMissing(row, MetaColumn[key])
                      THEN ret[i].metadata[key] = NA
                      ELSE ret[i].metadata[key] = row[MetaColumn[key]]

GenerateDone == pc = "returned" /\ call.op = "generate_prescription"
JsonDone == pc = "returned" /\ call.op = "_create_json_output"

SuccessShape(r) ==
    r.success = TRUE /\ "raw_response" \in DOMAIN r /\ "error" \notin DOMAIN r
FallbackShape(r) ==
    r.success = FALSE /\ "error" \in DOMAIN r /\ "raw_response" \notin DOMAIN r

\* C7: generate_prescription never raises and ends in exactly one of the
\* success outcome and the fallback outcome, also when the failure comes
\* from the patient data or the retrieved cases.
C7_NeverRaisesTwoOutcomes ==
    GenerateDone =>
        /\ outcome = "returned"
        /\ SuccessShape(ret) \/ FallbackShape(ret)
        /\ ~ (SuccessShape(ret) /\ FallbackShape(ret))

\* the generator was called and raised or answered the empty text
GeneratorFailed ==
    /\ GenerateDone
    /\ call.generator_calls = 1
    /\ call.generator.kind = "raise" \/ call.generator.text = <<>>

\* C8: when the generator call raises or returns empty text the result has
\* success=false, similar_cases_count=0, an error field and a non-empty
\* report containing the patient's name, whatever the number of cases.
C8_FallbackOnGeneratorFailure ==
    GeneratorFailed =>
        /\ outcome = "returned"
        /\ ret.success = FALSE
        /\ ret.similar_cases_count = 0
        /\ "error" \in DOMAIN ret
        /\ ret.error # ""
        /\ ret.display_format # <<>>
        /\ Contains(call.patient_info.name, ret.display_format)

C8_Witness ==
    /\ GeneratorFailed
    /\ call.generator.kind = "text"
    /\ Len(call.similar_cases.items) = 4
    /\ outcome = "returned"
    /\ ret.success = FALSE

\* C9: the structured document of the fallback outcome has exactly the 3
\* fixed medicines, the 5 fixed lifestyle entries and the four fixed diet
\* entries, for every patient.
C9_FallbackDocumentFixed ==
    (GenerateDone /\ outcome = "returned" /\ ret.success = FALSE) =>
        /\ ret.json_format.prescription.ayurvedic_medicines = FallbackMedicines
        /\ ret.json_format.prescription.lifestyle_recommendations
               = FallbackLifestyle
        /\ ret.json_format.prescription.diet_recommendations = FallbackDiet

IsList(x) == DOMAIN x = 1..Len(x)

\* the document built by the finished call and the text it was parsed from
BuiltDocument == IF JsonDone THEN ret ELSE ret.json_format
ParsedText ==
    IF JsonDone THEN call.response_text
    ELSE IF ret.success THEN ret.raw_response
    ELSE fallback_text(call.patient_info)

\* C10: for every generator text and for the fallback text,
\* _create_json_output does not raise and returns the groups patient_info,
\* prescription and metadata; prescription holds a medicines list, a diet
\* mapping keyed by meals only and a lifestyle list, each empty when its
\* section header is absent from the text.
C10_DocumentShape ==
    (JsonDone \/ (GenerateDone /\ outcome = "returned")) =>
        /\ outcome = "returned"
        /\ DOMAIN BuiltDocument = {"patient_info", "prescription", "metadata"}
        /\ {"ayurvedic_medicines", "diet_recommendations",
            "lifestyle_recommendations"}
               \subseteq DOMAIN BuiltDocument.prescription
        /\ LET p == BuiltDocument.prescription
           IN /\ IsList(p.ayurvedic_medicines)
              /\ IsList(p.lifestyle_recommendations)
              /\ DOMAIN p.diet_recommendations
                     \subseteq {"breakfast", "lunch", "dinner", "drinks"}
              /\ ~ Contains(<<HdrMedicines>>, ParsedText)
                     => p.ayurvedic_medicines = <<>>
              /\ ~ Contains(<<HdrDiet>>, ParsedText)
                     => p.diet_recommendations = EmptyDict
              /\ ~ Contains(<<HdrLifestyle>>, ParsedText)
                     => p.lifestyle_recommendations = <<>>

\* a diet row of fewer than 3 segments under the diet header was parsed
C10_Witness ==
    /\ JsonDone
    /\ call.response_text = MalformedText
    /\ ret.prescription.diet_recommendations = EmptyDict
    /\ ret.prescription.ayurvedic_medicines = <<>>

\* ------------------------------------------------- the parser's line rules
\* the stripped lines of a text, as the parser reads them
TextLines(text) ==
    LET raw == Split(text, NL) IN [i \in 1..Len(raw) |-> Strip(raw[i])]

\* the section a line announces, "None" for a line with no header phrase
HeaderOf(line) ==
    CASE Contains(<<HdrMedicines>>, line) -> "medicines"
      [] Contains(<<HdrDiet>>, line) -> "diet"
      [] Contains(<<HdrLifestyle>>, line) -> "lifestyle"
      [] OTHER -> "None"

\* the section in effect when line i is read: the one announced by the last
\* header line before it
SectionAt(lines, i) ==
    LET before == {j \in 1..(i - 1) : HeaderOf(lines[j]) # "None"}
    IN IF before = {} THEN "None"
       ELSE HeaderOf(lines[CHOOSE j \in before : \A k \in before : k <= j])

MealNames ==
    [breakfast |-> "Breakfast", lunch |-> "Lunch", dinner |-> "Dinner",
     drinks |-> "Drinks"]

\* the label cell of a table row: its first non-blank segment
LabelCell(line) ==
    LET parts == Split(line, Pipe)
        filled == {k \in 1..Len(parts) : Strip(parts[k]) # <<>>}
    IN IF filled = {} THEN <<>>
       ELSE Strip(parts[CHOOSE k \in filled : \A j \in filled : k <= j])

\* line i is a table row of the diet section labelled with the meal of key
LabelledRow(lines, i, key) ==
    /\ SectionAt(lines, i) = "diet"
    /\ HeaderOf(lines[i]) = "None"
    /\ Contains(<<Pipe>>, lines[i])
    /\ LabelCell(lines[i]) = <<MealNames[key]>>

DocumentBuilt == JsonDone \/ (GenerateDone /\ outcome = "returned")

\* C11: in the diet section a line with '|' and a meal name that splits into
\* at least 3 segments stores its trimmed 3rd segment under the lowercase key
\* of the meal labelling the row (| Breakfast | Warm oats | gives breakfast ->
\* "Warm oats"); a line of fewer than 3 segments stores nothing.
C11_DietRowStoredUnderLabel ==
    DocumentBuilt =>
        LET lines == TextLines(ParsedText)
            diet == BuiltDocument.prescription.diet_recommendations
        IN \A key \in DOMAIN MealNames :
               LET rows == {i \in 1..Len(lines) :
                               /\ LabelledRow(lines, i, key)
                               /\ Len(Split(lines[i], Pipe)) >= 3}
               IN IF rows = {} THEN key \notin DOMAIN diet
                  ELSE /\ key \in DOMAIN diet
                       /\ LET last == CHOOSE i \in rows : \A j \in rows : j <= i
                          IN diet[key] = Strip(Split(lines[last], Pipe)[3])

\* the finished generate_prescription call returned the success outcome
Succeeded == GenerateDone /\ outcome = "returned" /\ ret.success = TRUE

\* C12: generate_prescription returns success=true exactly when its single
\* generator call returned non-empty text without raising; then raw_response
\* is the generator's text and similar_cases_count is the number of cases
\* passed in, not the at most 3 shown in the prompt; the generator is called
\* at most once per call.
C12_SuccessExactlyOnText ==
    GenerateDone =>
        /\ call.generator_calls <= 1
        /\ Succeeded <=> /\ call.generator_calls = 1
                         /\ call.generator.kind = "text"
                         /\ call.generator.text # <<>>
        /\ Succeeded =>
               /\ ret.raw_response = call.generator.text
               /\ ret.similar_cases_count = Len(call.similar_cases.items)

\* a success on 4 retrieved cases, of which the prompt shows 3
C12_Witness ==
    /\ Succeeded
    /\ call.generator_calls = 1
    /\ Len(call.similar_cases.items) = 4
    /\ Len(call.prompt.context_section) = 3
    /\ ret.similar_cases_count = 4
    /\ ret.raw_response = GoodText

\* a cell that holds a number, so that .lower() raises on it
NonTextCell(row, col) == col \in DOMAIN row /\ row[col].kind = "num"

\* the finished search met an error inside its try block
SearchFailed ==
    \/ /\ StructuredDone
       /\ \E i \in 1..Len(data.rows) :
              \/ NonTextCell(data.rows[i], "Constitution")
              \/ call.diagnosis # <<>> /\ NonTextCell(data.rows[i], "Disease")
    \/ TextDone /\ call.query.kind # "str"

\* C13: search_by_symptoms_and_dosha and search_by_text never raise; an
\* internal error during scoring or result building, such as a non-text field
\* value in the corpus, yields an empty result list.
C13_SearchNeverRaises ==
    (StructuredDone \/ TextDone) =>
        /\ outcome = "returned"
        /\ SearchFailed => ret = <<>>

\* a structured search over a corpus whose Disease column holds numbers
C13_Witness ==
    /\ StructuredDone
    /\ SearchFailed
    /\ Len(data.rows) = 2
    /\ call.n_results = 2
    /\ outcome = "returned"
    /\ ret = <<>>

\* the places (column, position) at which the lower-cased query occurs in
\* the lower-cased text of a non-missing field of the row
QueryPlaces(row, query) ==
    {<<c, i>> \in UNION {{c} \X (1..(Len(Str(row[c])) + 1)) : c \in DOMAIN row} :
        /\ row[c].kind # "nan"
        /\ MatchAt(Lower(query), Lower(Str(row[c])), i)}

\* the free-text score as stated: the occurrences over all non-missing fields
StatedTextScore(idx, query) ==
    Cardinality(QueryPlaces(data.rows[idx + 1], query))

\* row index a ranks before row index b: higher score, or equal score and
\* lower index
RanksBefore(a, b, query) ==
    \/ StatedTextScore(a, query) > StatedTextScore(b, query)
    \/ /\ StatedTextScore(a, query) = StatedTextScore(b, query)
       /\ a < b

\* C14: search_by_text scores each record by the case-insensitive occurrence
\* count of the query over all its non-missing fields and returns the
\* records of score > 0, by score descending with ties in ascending index,
\* truncated to top_n; with no matching record the result is empty.
C14_TextSearchRanking ==
    (TextDone /\ call.query.kind = "str") =>
        LET query == call.query.val
            matching == {idx \in 0..(Len(data.rows) - 1) :
                            StatedTextScore(idx, query) > 0}
            returned == {StrToInt(ret[i].id) : i \in 1..Len(ret)}
        IN /\ outcome = "returned"
           /\ Len(ret) = Min(Max(call.n_results, 0), Cardinality(matching))
           /\ returned \subseteq matching
           /\ \A i \in 1..(Len(ret) - 1) :
                  RanksBefore(StrToInt(ret[i].id), StrToInt(ret[i + 1].id),
                              query)
           /\ \A a \in returned, b \in matching \ returned :
                  RanksBefore(a, b, query)

JsonTwiceDone == pc = "returned" /\ call.op = "_create_json_output twice"

\* a document without its generation timestamp
WithoutDate(doc) ==
    [doc EXCEPT
        !.metadata = [k \in DOMAIN doc.metadata \ {"generated_date"} |->
                         doc.metadata[k]]]

\* C15: two calls of _create_json_output on the same text and patient yield
\* the same document when the timestamp is the same, and documents that
\* differ in nothing but the generation timestamp otherwise.
C15_OnlyTimestampDiffers ==
    JsonTwiceDone =>
        /\ call.now1 = call.now2 => ret[1] = ret[2]
        /\ WithoutDate(ret[1]) = WithoutDate(ret[2])

\* two calls on the same text at different clock readings
C15_Witness ==
    /\ JsonTwiceDone
    /\ call.response_text = GoodText
    /\ call.now1 # call.now2
    /\ ret[1] # ret[2]
    /\ ret[1].metadata.generated_date # ret[2].metadata.generated_date
    /\ ret[1].prescription.ayurvedic_medicines = <<<<"m">>>>

BulletLed(line) == line # <<>> /\ Head(line) = Bullet

\* the bullet-stripped texts of the lines at the indices idxs, in line order
BulletItems(lines, idxs) ==
    [n \in 1..Cardinality(idxs) |->
        LET i == CHOOSE x \in idxs : Cardinality({j \in idxs : j <= x}) = n
        IN Strip(Tail(lines[i]))]

\* the bullet-led lines read while the section was in effect
BulletLinesOf(lines, section) ==
    {i \in 1..Len(lines) :
        BulletLed(lines[i]) /\ SectionAt(lines, i) = section}

\* C17 as stated: the medicines list is, in order, the bullet-stripped text
\* of every bullet-led line read while the section was medicines, and the
\* lifestyle list likewise.
C17_EveryBulletLineCollected ==
    JsonDone =>
        LET lines == TextLines(call.response_text)
        IN /\ ret.prescription.ayurvedic_medicines
                  = BulletItems(lines, BulletLinesOf(lines, "medicines"))
           /\ ret.prescription.lifestyle_recommendations
                  = BulletItems(lines, BulletLinesOf(lines, "lifestyle"))

\* the bullet-led lines of a section that hold no section header phrase
PlainBulletLinesOf(lines, section) ==
    {i \in BulletLinesOf(lines, section) : HeaderOf(lines[i]) = "None"}

\* C17: after any sequence of lines the medicines list is exactly, in order
\* of appearance, the bullet-stripped text of every bullet-led line without a
\* section header phrase read while the section was medicines, and the
\* lifestyle list likewise; bullet lines before the first header or in the
\* diet section are never added, and switching or re-entering a section
\* removes and reorders nothing.
C17_PlainBulletLinesCollected ==
    JsonDone =>
        LET lines == TextLines(call.response_text)
        IN /\ ret.prescription.ayurvedic_medicines
                  = BulletItems(lines, PlainBulletLinesOf(lines, "medicines"))
           /\ ret.prescription.lifestyle_recommendations
                  = BulletItems(lines, PlainBulletLinesOf(lines, "lifestyle"))

\* the medicines section was left and entered again, with bullet lines
\* before the first header and in the diet section
C17_Witness ==
    /\ JsonDone
    /\ call.response_text = SwitchText
    /\ ret.prescription.ayurvedic_medicines = <<<<"m">>, <<"n">>>>
    /\ ret.prescription.lifestyle_recommendations = <<<<"w">>>>

MealOrder == <<"breakfast", "lunch", "dinner", "drinks">>

\* the key of the first meal name, in the order Breakfast, Lunch, Dinner,
\* Drinks, that occurs anywhere in the line; "None" when none occurs
FirstMealIn(line) ==
    LET present == {n \in 1..Len(MealOrder) :
                       Contains(<<MealNames[MealOrder[n]]>>, line)}
    IN IF present = {} THEN "None"
       ELSE MealOrder[CHOOSE n \in present : \A m \in present : n <= m]

\* the lines that update the entry of key: rows of the diet section of at
\* least 3 segments whose first meal name is that of key
RowsFor(lines, key) ==
    {i \in 1..Len(lines) :
        /\ SectionAt(lines, i) = "diet"
        /\ HeaderOf(lines[i]) = "None"
        /\ Contains(<<Pipe>>, lines[i])
        /\ FirstMealIn(lines[i]) = key
        /\ Len(Split(lines[i], Pipe)) >= 3}

\* C19: each diet-section line updates at most one meal key, that of the
\* first of Breakfast, Lunch, Dinner, Drinks (case-sensitive) occurring
\* anywhere in the line, so a row labelled with a later meal that mentions an
\* earlier one is stored under the earlier key; a later line for a key
\* overwrites the earlier value.
C19_FirstMealNameWins ==
    JsonDone =>
        LET lines == TextLines(call.response_text)
            diet == ret.prescription.diet_recommendations
        IN \A key \in DOMAIN MealNames :
               IF RowsFor(lines, key) = {} THEN key \notin DOMAIN diet
               ELSE /\ key \in DOMAIN diet
                    /\ LET last == CHOOSE i \in RowsFor(lines, key) :
                                       \A j \in RowsFor(lines, key) : j <= i
                       IN diet[key] = Strip(Split(lines[last], Pipe)[3])

\* the Drinks row naming Dinner replaced the dinner entry and left no drinks
\* entry; the lower-case breakfast row stored nothing
C19_Witness ==
    /\ JsonDone
    /\ call.response_text = OverwriteText
    /\ ret.prescription.diet_recommendations
           = [dinner |-> <<"after", " ", "Dinner">>]

GenerationEndpoints ==
    {"/generate-prescription", "/generate-medication", "/generate-diet"}

\* a generation endpoint has answered a request on which the orchestrator
\* returned the fallback outcome
EndpointFellBack ==
    /\ pc = "returned"
    /\ call.op \in GenerationEndpoints
    /\ ~ call.prescription_result.raised
    /\ call.prescription_result.value.success = FALSE

\* C16: when the orchestrator returns the fallback outcome every generation
\* endpoint still delivers the structured result: /generate-prescription the
\* fallback report and document, /generate-medication the fallback medicines
\* and lifestyle lists, /generate-diet the fallback diet mapping.
C16_FallbackDelivered ==
    EndpointFellBack =>
        LET result == call.prescription_result.value
            doc == result.json_format.prescription
        IN /\ call.op = "/generate-prescription" =>
                  /\ {"prescription", "json_format"} \subseteq DOMAIN ret
                  /\ ret.prescription = result.display_format
                  /\ ret.json_format = result.json_format
           /\ call.op = "/generate-medication" =>
                  /\ {"ayurvedic_medicines", "lifestyle_recommendations"}
                         \subseteq DOMAIN ret
                  /\ ret.ayurvedic_medicines = doc.ayurvedic_medicines
                  /\ ret.lifestyle_recommendations
                         = doc.lifestyle_recommendations
           /\ call.op = "/generate-diet" =>
                  /\ "diet_recommendations" \in DOMAIN ret
                  /\ ret.diet_recommendations = doc.diet_recommendations

SearchCasesDone == pc = "returned" /\ call.op = "/search-cases"

\* C18: with a non-empty query /search-cases returns success=true with
\* similar_cases equal to the free-text search result for (query, n_results)
\* and results_count equal to its length.
C18_SearchCasesReturnsTextSearch ==
    (SearchCasesDone /\ "query" \in DOMAIN call.query
                     /\ call.query.query.kind = "str"
                     /\ call.query.query.val # <<>>) =>
        LET n_results == IF "n_results" \in DOMAIN call.query
                         THEN call.query.n_results ELSE 5
            found == TextOutcome(call.query.query, n_results).value
        IN /\ ret.success = TRUE
           /\ {"similar_cases", "results_count"} \subseteq DOMAIN ret
           /\ ret.similar_cases = found
           /\ ret.results_count = Len(found)

====
